---- MODULE Spec2Model ----
(***************************************************************************)
(* Model of the WizC PIC18 port layer of the FreeRTOS kernel               *)
(* (portable/WizC/PIC18/port.c): the initial stack frame builder, the      *)
(* minimal stack size calculator, the critical nesting counter, the        *)
(* scheduler bootstrap, the manual yield and the allocator gate.           *)
(*                                                                         *)
(* The port's macros (portENTER_CRITICAL, portEXIT_CRITICAL,               *)
(* portSAVE_CONTEXT, portRESTORE_CONTEXT) live in portmacro.h and the      *)
(* scheduler hooks (vTaskSuspendAll, xTaskResumeAll, vTaskSwitchContext)   *)
(* in tasks.c; neither file is part of the sources at hand, so those are   *)
(* modelled from the specification's description of them.                  *)
(***************************************************************************)
EXTENDS Integers, Sequences, FiniteSets, TLC

VARIABLES
    tier,               \* build configuration: "small" (_ROMSIZE <= 0x8000) or "large"
    scratch,            \* the literal OVERHEADPAGE0-LOCOPTSIZE+MAXLOCOPTSIZE of the build
    op,                 \* name of the last operation (or step of one) that has run
    ret,                \* value handed back by the last operation that returns one
    usCalcMinStackSize, \* the 16-bit global of usPortCALCULATE_MINIMAL_STACK_SIZE
    calcCalls,          \* calls of usPortCALCULATE_MINIMAL_STACK_SIZE so far
    stack,              \* the task stack region: address -> byte
    topIn,              \* pxTopOfStack as passed to pxPortInitialiseStack
    pxCode,             \* task entry address passed to pxPortInitialiseStack
    pvParameters,       \* task parameter passed to pxPortInitialiseStack
    pxTopOfStack,       \* the task's stored top of stack (the builder's return value)
    regs,               \* CPU register file as loaded by a restore: name -> byte
    hwStack,            \* hardware call/return stack: sequence of return-address records
    sp,                 \* software stack pointer after a restore
    ucCriticalNesting,  \* the live one-byte critical nesting counter
    bGIE,               \* global interrupt enable bit
    depth,              \* critical sections entered and not yet left by the running code
    base,               \* value of ucCriticalNesting when the running code had depth 0
    peak,               \* greatest depth the running code has reached
    phase,              \* scheduler lifecycle: "NotStarted", "Running" or "Halted"
    pc,                 \* << function, step >> of the port function in progress
    tickArmed,          \* the periodic tick source has been set up
    tickSetups,         \* calls of portSetupTick so far
    pxCurrentTCB,       \* the task the scheduler designates to run
    running,            \* whose context is live on the CPU: NoTask (the startup code) or a task
    ctx,                \* task -> its stored context
    log,                \* calls made by the port function in progress or last
                        \* completed, and the ticks that fired during it
    caller,             \* the context that called the port function in progress
    uxSchedulerSuspended, \* the scheduler's suspend count
    xYieldPending,      \* a tick arrived while the scheduler was suspended
    heap,               \* the allocator's blocks: handle -> units held (0: free)
    usWantedSize,       \* argument of pvPortMalloc
    pvReturn,           \* local of pvPortMalloc
    pv,                 \* argument of vPortFree
    mallocRet,          \* what the allocator's malloc returned last
    ucScratch,          \* the 8-bit local of pxPortInitialiseStack
    zeroBytes           \* scratch bytes the loop of pxPortInitialiseStack has stored

vars == << tier, scratch, op, ret, usCalcMinStackSize, calcCalls, stack, topIn,
           pxCode, pvParameters, pxTopOfStack, regs, hwStack, sp,
           ucCriticalNesting, bGIE, depth, base, peak,
           phase, pc, tickArmed, tickSetups, pxCurrentTCB, running, ctx, log,
           caller, uxSchedulerSuspended, xYieldPending, heap, usWantedSize,
           pvReturn, pv, mallocRet, ucScratch, zeroBytes >>

loopVars  == << ucScratch, zeroBytes >>
calcVars  == << usCalcMinStackSize, calcCalls >>
stackVars == << stack, topIn, pxCode, pvParameters, pxTopOfStack >>
cpuVars   == << regs, hwStack, sp >>
critVars  == << ucCriticalNesting, bGIE, depth, base, peak >>
schedVars == << phase, pc, tickArmed, tickSetups, pxCurrentTCB, running, ctx, log >>
allocVars == << caller, uxSchedulerSuspended, xYieldPending, heap, usWantedSize,
                pvReturn, pv, mallocRet >>

----------------------------------------------------------------------------
(* Bounds of the model *)

MaxCalcCalls == 256

StackSize == 300

MaxDepth == 260

HeapUnits == 2

MaxSize == 2

MaxTicks == 2

MaxYieldNesting == 2

----------------------------------------------------------------------------
(* Widths and build configuration *)

Tiers == {"small", "large"}

Bytes == 0 .. 255

Words == 0 .. 65535

Lo8(x) == x % 256

Hi8(x) == (x \div 256) % 256

portSTACK_FSR_BYTES(t) == IF t = "large" THEN 15 ELSE 13

portSTACK_CALLRETURN_ENTRY_SIZE(t) == IF t = "large" THEN 3 ELSE 2

portSTACK_MINIMAL_CALLRETURN_DEPTH == 10

portSTACK_OTHER_BYTES == 20

portNO_CRITICAL_SECTION_NESTING == 0

\* The counter initialised to the not-nested value, as before V3.0.0.
CriticalNestingInit_Zero == 127 - 127

CriticalNestingInit == 127

NoRegs == << >>

Tasks == {1, 2}

NoTask == 0

Idle == << "idle", 0 >>

NULL == 0

Handles == 1 .. HeapUnits

\* The context pxPortInitialiseStack stores for a new task, as the running
\* code sees it once restored: not nested, no critical section entered.
InitialContext ==
    [nesting |-> portNO_CRITICAL_SECTION_NESTING, depth |-> 0,
     base |-> portNO_CRITICAL_SECTION_NESTING, peak |-> 0]

----------------------------------------------------------------------------
(* usPortCALCULATE_MINIMAL_STACK_SIZE *)

\* movwf usCalcMinStackSize,BANKED stores W in the byte at the variable's
\* address, its low byte; the high byte keeps what it held.
FetchScratch(v, w) == (v \div 256) * 256 + Lo8(w)

MinimalStackAddend(t) ==
    portSTACK_FSR_BYTES(t)
    + portSTACK_MINIMAL_CALLRETURN_DEPTH * portSTACK_CALLRETURN_ENTRY_SIZE(t)
    + portSTACK_OTHER_BYTES

CalcMinStackSize(v, w, t) == (FetchScratch(v, w) + MinimalStackAddend(t)) % 65536

usPortCALCULATE_MINIMAL_STACK_SIZE ==
    /\ calcCalls < MaxCalcCalls
    /\ usCalcMinStackSize' = CalcMinStackSize(usCalcMinStackSize, scratch, tier)
    /\ ret' = usCalcMinStackSize'
    /\ calcCalls' = calcCalls + 1
    /\ op' = "calc"
    /\ UNCHANGED << tier, scratch, loopVars, allocVars, stackVars, cpuVars, critVars, schedVars >>

\* The state after the C start-up code has run the initialisers: the globals
\* of port.c, interrupts disabled as a device reset leaves them, main running.
ConfigInit ==
    /\ tier \in Tiers
    /\ op = "none"
    /\ ret = 0
    /\ ucScratch = 0
    /\ zeroBytes = 0

CalcInit ==
    /\ usCalcMinStackSize = 0
    /\ calcCalls = 0

NoStack ==
    /\ stack = << >>
    /\ topIn = 0
    /\ pxCode = 0
    /\ pvParameters = 0
    /\ pxTopOfStack = 0

CpuInit ==
    /\ regs = NoRegs
    /\ hwStack = << >>
    /\ sp = 0

CritInit ==
    /\ ucCriticalNesting = CriticalNestingInit
    /\ bGIE = FALSE
    /\ depth = 0
    /\ base = CriticalNestingInit
    /\ peak = 0

AllocInit ==
    /\ caller = NoTask
    /\ uxSchedulerSuspended = 0
    /\ xYieldPending = FALSE
    /\ heap = [h \in Handles |-> 0]
    /\ usWantedSize = 0
    /\ pvReturn = NULL
    /\ pv = NULL
    /\ mallocRet = NULL

SchedInit ==
    /\ phase = "NotStarted"
    /\ pc = Idle
    /\ tickArmed = FALSE
    /\ tickSetups = 0
    /\ pxCurrentTCB = NoTask
    /\ running = NoTask
    /\ ctx = [t \in Tasks |-> InitialContext]
    /\ log = << >>

InitCalc ==
    /\ ConfigInit
    /\ scratch \in Bytes
    /\ CalcInit
    /\ NoStack
    /\ CpuInit
    /\ CritInit
    /\ SchedInit
    /\ AllocInit

NextCalc == usPortCALCULATE_MINIMAL_STACK_SIZE

SpecCalc == InitCalc /\ [][NextCalc]_vars

\* The size the specification's formula gives for scratch size s in tier t.
SizeFormula(s, t) == s + (IF t = "large" THEN 15 ELSE 13)
                       + 10 * (IF t = "large" THEN 3 ELSE 2) + 20

\* C1: every call of usPortCALCULATE_MINIMAL_STACK_SIZE returns
\* S + registerBytes(tier) + 10 * recordSize(tier) + 20 (53 + S in the small
\* tier, 65 + S in the large tier).
C1_EveryCallReturnsFormula ==
    op = "calc" => ret = SizeFormula(scratch, tier)

\* A second call with a scratch size whose first result needed the high byte.
C1_SecondCallReached ==
    /\ op = "calc"
    /\ calcCalls = 2
    /\ tier = "small"
    /\ scratch = 203

----------------------------------------------------------------------------
(* pxPortInitialiseStack *)

StackAddrs == 0 .. StackSize - 1

\* Contents of a stack region the builder has not written yet.
StackFills == {0, 165}

\* Entry addresses and parameters handed to the builder.
EntryAddrs == {0, 255, 4660, 65535}

ParamValues == {0, 255, 43981, 65280}

\* Caller's top-of-stack pointers: the region's highest addresses.
TopPointers == {StackSize - 1, StackSize - 2}

\* The stores written with a pre-decrement, *--pxTopOfStack = v.
PushAll_PreDecrement(st, bytes) ==
    [mem |-> [a \in DOMAIN st.mem |->
                 IF st.ptr - Len(bytes) <= a /\ a < st.ptr
                 THEN bytes[st.ptr - a]
                 ELSE st.mem[a]],
     ptr |-> st.ptr - Len(bytes)]

\* *pxTopOfStack-- = v, once for each byte of bytes in turn: the i-th byte
\* lands at st.ptr - (i - 1) and the pointer ends Len(bytes) lower.
PushAll(st, bytes) ==
    [mem |-> [a \in DOMAIN st.mem |->
                 IF st.ptr - Len(bytes) < a /\ a <= st.ptr
                 THEN bytes[st.ptr - a + 1]
                 ELSE st.mem[a]],
     ptr |-> st.ptr - Len(bytes)]

\* The function parameter: high byte first, then low byte.
ParamBytes(p) == << Hi8(p % 65536), Lo8(p % 65536) >>

\* The register list with the two upper bytes of the large devices stored
\* after the common registers instead of among them.
AllRegisters_ExtrasLast ==
    << [name |-> "STATUS",  val |-> 17],
       [name |-> "WREG",    val |-> 34],
       [name |-> "BSR",     val |-> 51],
       [name |-> "PRODH",   val |-> 68],
       [name |-> "PRODL",   val |-> 85],
       [name |-> "FSR0H",   val |-> 102],
       [name |-> "FSR0L",   val |-> 119],
       [name |-> "FSR1H",   val |-> 136],
       [name |-> "FSR1L",   val |-> 153],
       [name |-> "TABLAT",  val |-> 170],
       [name |-> "TBLPTRH", val |-> 204],
       [name |-> "TBLPTRL", val |-> 221],
       [name |-> "PCLATH",  val |-> 255],
       [name |-> "TBLPTRU", val |-> 0],
       [name |-> "PCLATU",  val |-> 238] >>

\* The registers of the task context in the order they are stored; TBLPTRU
\* and PCLATU exist only on devices with more than 64kB of ROM.
AllRegisters ==
    << [name |-> "STATUS",  val |-> 17],
       [name |-> "WREG",    val |-> 34],
       [name |-> "BSR",     val |-> 51],
       [name |-> "PRODH",   val |-> 68],
       [name |-> "PRODL",   val |-> 85],
       [name |-> "FSR0H",   val |-> 102],
       [name |-> "FSR0L",   val |-> 119],
       [name |-> "FSR1H",   val |-> 136],
       [name |-> "FSR1L",   val |-> 153],
       [name |-> "TABLAT",  val |-> 170],
       [name |-> "TBLPTRU", val |-> 0],
       [name |-> "TBLPTRH", val |-> 204],
       [name |-> "TBLPTRL", val |-> 221],
       [name |-> "PCLATU",  val |-> 238],
       [name |-> "PCLATH",  val |-> 255] >>

LargeOnlyRegisters == {"TBLPTRU", "PCLATU"}

\* The conditional compilation put around TBLPTRH instead of TBLPTRU.
InTier_WrongSlot(r, t) == t = "large" \/ r.name \notin {"TBLPTRH", "PCLATU"}

InTier(r, t) == t = "large" \/ r.name \notin LargeOnlyRegisters

RegisterBlock(t) == SelectSeq(AllRegisters, LAMBDA r : InTier(r, t))

RegisterBytes(t) == [i \in 1 .. Len(RegisterBlock(t)) |-> RegisterBlock(t)[i].val]

\* while(ucScratch-- > 0) { ... }  with ucScratch a uint8_t, here u. Before its
\* k-th test (k = 0, 1, ...) the variable holds u - k modulo 256; the body
\* runs once for every test that finds it above 0, up to the first that does
\* not.
ScratchTested(u, k) == (u - k) % 256

\* The loop written with a pre-decrement test, while(--ucScratch > 0).
ScratchIterations_PreDecrement(u) ==
    CHOOSE n \in 0 .. 255 : (u - n - 1) % 256 = 0

ScratchIterations(u) ==
    CHOOSE n \in 0 .. 255 :
        /\ ~ (ScratchTested(u, n) > 0)
        /\ \A k \in 0 .. n - 1 : ScratchTested(u, k) > 0

\* The loop's body, *pxTopOfStack-- = 0, once per iteration.
ScratchBytes(u) == [i \in 1 .. ScratchIterations(u) |-> 0]

\* The return address stored low byte first.
ReturnAddressBytes_Swapped(code, t) ==
    (IF t = "large" THEN << 0 >> ELSE << >>)
    \o << Lo8(code % 65536), Hi8(code % 65536) >>

\* The task entry as the only return address: (TOSU,) TOSH, TOSL.
ReturnAddressBytes(code, t) ==
    (IF t = "large" THEN << 0 >> ELSE << >>)
    \o << Hi8(code % 65536), Lo8(code % 65536) >>

\* The frame seeded with the live nesting counter instead of the constant.
FrameBytes_LiveNesting(code, param, t, s) ==
    ParamBytes(param)
    \o RegisterBytes(t)
    \o ScratchBytes(Lo8(s))
    \o ReturnAddressBytes(code, t)
    \o << 1 >>
    \o << ucCriticalNesting >>

\* Everything the builder stores, in the order it stores it.
FrameBytes(code, param, t, s) ==
    ParamBytes(param)
    \o RegisterBytes(t)
    \o ScratchBytes(Lo8(s))
    \o ReturnAddressBytes(code, t)
    \o << 1 >>
    \o << portNO_CRITICAL_SECTION_NESTING >>

BuildFrame(mem, top, code, param, t, s) ==
    PushAll([mem |-> mem, ptr |-> top], FrameBytes(code, param, t, s))

pxPortInitialiseStack ==
    /\ op = "none"
    /\ \E top \in TopPointers, code \in EntryAddrs, param \in ParamValues :
          \E f \in {BuildFrame(stack, top, code, param, tier, scratch)} :
              /\ stack' = f.mem
              /\ pxTopOfStack' = f.ptr
              /\ ret' = f.ptr
              /\ topIn' = top
              /\ pxCode' = code
              /\ pvParameters' = param
    /\ op' = "build"
    /\ UNCHANGED << tier, scratch, loopVars, allocVars, calcVars, cpuVars, critVars, schedVars >>

----------------------------------------------------------------------------
(* portRESTORE_CONTEXT applied to a stored frame: pops in the exact reverse  *)
(* of the order the frame was pushed in.                                     *)

Pop(st) == [mem |-> st.mem, ptr |-> st.ptr + 1, val |-> st.mem[st.ptr + 1]]

RECURSIVE PopRecords(_, _, _, _)
PopRecords(st, n, t, acc) ==
    IF n = 0 THEN [st |-> st, recs |-> acc]
    ELSE LET l == Pop(st)
             h == Pop(l)
             u == IF t = "large" THEN Pop(h) ELSE [h EXCEPT !.val = 0]
         IN  PopRecords(u, n - 1, t,
                        Append(acc, [tosu |-> u.val, tosh |-> h.val, tosl |-> l.val]))

RECURSIVE PopRegisters(_, _, _)
PopRegisters(st, names, acc) ==
    IF names = << >> THEN [st |-> st, file |-> acc]
    ELSE LET p == Pop(st)
             n == names[Len(names)]
         IN  PopRegisters(p, SubSeq(names, 1, Len(names) - 1),
                          [x \in DOMAIN acc \cup {n} |-> IF x = n THEN p.val ELSE acc[x]])

RegisterNames(t) == [i \in 1 .. Len(RegisterBlock(t)) |-> RegisterBlock(t)[i].name]

RestoreFrame(mem, ptr, t, s) ==
    LET s0 == [mem |-> mem, ptr |-> ptr]
        n  == Pop(s0)
        c  == Pop(n)
        r  == PopRecords(c, c.val, t, << >>)
        s1 == [r.st EXCEPT !.ptr = @ + Lo8(s)]
        f  == PopRegisters(s1, RegisterNames(t), << >>)
    IN  [nesting |-> n.val, recs |-> r.recs, file |-> f.file, ptr |-> f.st.ptr]

RecordAddress(rec) == rec.tosu * 65536 + rec.tosh * 256 + rec.tosl

portRESTORE_CONTEXT ==
    /\ op = "build"
    /\ \E r \in {RestoreFrame(stack, pxTopOfStack, tier, scratch)} :
           /\ ucCriticalNesting' = r.nesting
           /\ bGIE' = (r.nesting = portNO_CRITICAL_SECTION_NESTING)
           /\ hwStack' = r.recs
           /\ regs' = r.file
           /\ sp' = r.ptr
    /\ op' = "restore"
    /\ UNCHANGED << tier, scratch, loopVars, allocVars, ret, calcVars, stackVars, depth, base, peak,
                    schedVars >>

InitStack ==
    /\ ConfigInit
    /\ scratch \in Bytes
    /\ CalcInit
    /\ \E fill \in StackFills : stack = [a \in StackAddrs |-> fill]
    /\ topIn = 0
    /\ pxCode = 0
    /\ pvParameters = 0
    /\ pxTopOfStack = 0
    /\ CpuInit
    /\ CritInit
    /\ SchedInit
    /\ AllocInit

NextStack == pxPortInitialiseStack \/ portRESTORE_CONTEXT

SpecStack == InitStack /\ [][NextStack]_vars

\* C2: restoring the frame built for entry address E and parameter P gives
\* the not-nested counter value, exactly one call/return record, whose
\* address is E (upper byte 0), and leaves the parameter bytes at the
\* original top of stack (high byte at top, low byte below) equal to P.
C2_RestoreEntersTaskWithParameter ==
    op = "restore" =>
        /\ ucCriticalNesting = portNO_CRITICAL_SECTION_NESTING
        /\ Len(hwStack) = 1
        /\ RecordAddress(hwStack[1]) = pxCode
        /\ hwStack[1].tosu = 0
        /\ sp = topIn - 2
        /\ stack[topIn] * 256 + stack[topIn - 1] = pvParameters

C2_Witness ==
    /\ op = "restore"
    /\ tier = "large"
    /\ scratch = 255
    /\ pxCode = 4660
    /\ pvParameters = 43981

\* C3: the builder returns the input pointer lowered by
\* registerBytes + recordSize + S + 4 (19 + S small, 22 + S large), one slot
\* below the last byte written, the critical nesting byte.
C3_ReturnedPointer ==
    op = "build" =>
        /\ ret = topIn - ((IF tier = "large" THEN 22 ELSE 19) + scratch)
        /\ topIn - ret = (IF tier = "large" THEN 15 + 3 ELSE 13 + 2) + scratch + 4
        /\ stack[ret + 1] = portNO_CRITICAL_SECTION_NESTING
        /\ stack[ret + 2] = 1
        /\ \A a \in StackAddrs : a <= ret => stack[a] = stack[0]

C3_Witness ==
    /\ op = "build"
    /\ tier = "small"
    /\ scratch = 200
    /\ ret = topIn - 219

----------------------------------------------------------------------------
(* The generic save and restore of a task context, on stored contexts *)

LiveContext ==
    [nesting |-> ucCriticalNesting, depth |-> depth, base |-> base, peak |-> peak]

\* portRESTORE_CONTEXT: load a stored context; a task that is not inside a
\* critical section runs with interrupts enabled.
LoadContext(c) ==
    /\ ucCriticalNesting' = c.nesting
    /\ bGIE' = (c.nesting = portNO_CRITICAL_SECTION_NESTING)
    /\ depth' = c.depth
    /\ base' = c.base
    /\ peak' = c.peak

----------------------------------------------------------------------------
(* xPortStartScheduler *)

\* The first task restored before the tick is set up.
StartSteps_RestoreFirst == << "portRESTORE_CONTEXT", "portSetupTick", "return" >>

\* The body of xPortStartScheduler, statement by statement.
StartSteps == << "portSetupTick", "portRESTORE_CONTEXT", "return" >>

AtStart(i) == pc = << "xPortStartScheduler", i >> /\ i \in DOMAIN StartSteps

\* The scheduler designates the first task to run and calls the port.
vTaskStartScheduler ==
    /\ phase = "NotStarted"
    /\ pc = Idle
    /\ \E t \in Tasks : pxCurrentTCB' = t
    /\ pc' = << "xPortStartScheduler", 1 >>
    /\ log' = << >>
    /\ op' = "vTaskStartScheduler"
    /\ UNCHANGED << tier, scratch, loopVars, allocVars, ret, calcVars, stackVars, cpuVars, critVars,
                    phase, tickArmed, tickSetups, running, ctx >>

xPortStartScheduler_SetupTick ==
    /\ \E i \in DOMAIN StartSteps :
          /\ AtStart(i)
          /\ StartSteps[i] = "portSetupTick"
          /\ pc' = << "xPortStartScheduler", i + 1 >>
    /\ tickArmed' = TRUE
    /\ tickSetups' = tickSetups + 1
    /\ log' = Append(log, "portSetupTick")
    /\ op' = "portSetupTick"
    /\ UNCHANGED << tier, scratch, loopVars, allocVars, ret, calcVars, stackVars, cpuVars, critVars,
                    phase, pxCurrentTCB, running, ctx >>

\* Control passes to the restored task: the rest of the body is not run.
xPortStartScheduler_Restore ==
    /\ \E i \in DOMAIN StartSteps :
          /\ AtStart(i)
          /\ StartSteps[i] = "portRESTORE_CONTEXT"
    /\ LoadContext(ctx[pxCurrentTCB])
    /\ running' = pxCurrentTCB
    /\ phase' = "Running"
    /\ pc' = Idle
    /\ log' = Append(log, "portRESTORE_CONTEXT")
    /\ op' = "startRestore"
    /\ UNCHANGED << tier, scratch, loopVars, allocVars, ret, calcVars, stackVars, cpuVars,
                    tickArmed, tickSetups, pxCurrentTCB, ctx >>

----------------------------------------------------------------------------
(* portENTER_CRITICAL and portEXIT_CRITICAL on the live counter *)

Inc8(n) == (n + 1) % 256

Dec8(n) == (n - 1) % 256

\* Entering increments; interrupts are disabled on the 0 -> 1 transition.
portENTER_CRITICAL ==
    /\ pc = Idle
    /\ phase # "Halted"
    /\ depth < MaxDepth
    /\ bGIE' = IF ucCriticalNesting = portNO_CRITICAL_SECTION_NESTING
               THEN FALSE ELSE bGIE
    /\ ucCriticalNesting' = Inc8(ucCriticalNesting)
    /\ depth' = depth + 1
    /\ peak' = IF depth + 1 > peak THEN depth + 1 ELSE peak
    /\ op' = "enter"
    /\ UNCHANGED << tier, scratch, loopVars, allocVars, ret, calcVars, stackVars, cpuVars, base,
                    schedVars >>

\* Leaving enables interrupts whatever the counter has come down to.
portEXIT_CRITICAL_AlwaysEnable ==
    /\ pc = Idle
    /\ phase # "Halted"
    /\ depth > 0
    /\ ucCriticalNesting' = Dec8(ucCriticalNesting)
    /\ bGIE' = TRUE
    /\ depth' = depth - 1
    /\ op' = "exit"
    /\ UNCHANGED << tier, scratch, loopVars, allocVars, ret, calcVars, stackVars, cpuVars, base, peak,
                    schedVars >>

\* Leaving decrements; interrupts are enabled on the 1 -> 0 transition.
portEXIT_CRITICAL ==
    /\ pc = Idle
    /\ phase # "Halted"
    /\ depth > 0
    /\ ucCriticalNesting' = Dec8(ucCriticalNesting)
    /\ bGIE' = IF Dec8(ucCriticalNesting) = portNO_CRITICAL_SECTION_NESTING
               THEN TRUE ELSE bGIE
    /\ depth' = depth - 1
    /\ op' = "exit"
    /\ UNCHANGED << tier, scratch, loopVars, allocVars, ret, calcVars, stackVars, cpuVars, base, peak,
                    schedVars >>

InitCrit ==
    /\ ConfigInit
    /\ scratch = 0
    /\ CalcInit
    /\ NoStack
    /\ CpuInit
    /\ CritInit
    /\ SchedInit
    /\ AllocInit

NextCrit ==
    \/ portENTER_CRITICAL
    \/ portEXIT_CRITICAL
    \/ vTaskStartScheduler
    \/ xPortStartScheduler_SetupTick
    \/ xPortStartScheduler_Restore

SpecCrit == InitCrit /\ [][NextCrit]_vars

EnterOrExit == op' \in {"enter", "exit"}

CounterReturns == depth = 0 => ucCriticalNesting = base

ToggledOnlyAtBoundary ==
    (EnterOrExit /\ bGIE' # bGIE) =>
        \/ op' = "enter" /\ ucCriticalNesting = 0 /\ ucCriticalNesting' = 1
        \/ op' = "exit" /\ ucCriticalNesting = 1 /\ ucCriticalNesting' = 0

NeverOnIntermediate ==
    (EnterOrExit /\ bGIE' # bGIE) =>
        \/ op' = "enter" /\ depth = 0
        \/ op' = "exit" /\ depth' = 0

\* C4 as stated: after matched enter/exit pairs the counter is back at its
\* pre-sequence value, and the interrupt enable changes only on the enter
\* that takes the counter from 0 to 1 and the exit that takes it from 1 to 0,
\* never on an intermediate enter or exit.
C4_NestingAlgebra ==
    /\ [](CounterReturns)
    /\ [][ToggledOnlyAtBoundary /\ NeverOnIntermediate]_vars

\* C4 amended: the same, for sequences that do not wrap the one-byte counter.
C4_NestingAlgebraNoWrap ==
    /\ [](CounterReturns)
    /\ [][ToggledOnlyAtBoundary]_vars
    /\ [][(base + peak' <= 255) => NeverOnIntermediate]_vars

\* A task has nested two deep and left both sections again.
C4_Witness ==
    /\ phase = "Running"
    /\ op = "exit"
    /\ depth = 0
    /\ peak = 2
    /\ bGIE

\* C5 as stated: before the scheduler starts, no sequence of matched
\* enter/exit pairs, however deep, takes the counter below 0x7F or enables
\* interrupts.
C5_PreSchedulerSafety ==
    phase = "NotStarted" => (ucCriticalNesting >= 127 /\ ~ bGIE)

\* C5 amended: it holds while no more than 255 - 0x7F = 128 sections are nested.
C5_PreSchedulerSafetyNoWrap ==
    (phase = "NotStarted" /\ peak <= 255 - 127) =>
        (ucCriticalNesting >= 127 /\ ~ bGIE)

\* Before the scheduler starts, 128 sections are nested: the counter is 0xFF.
C5_Witness ==
    /\ phase = "NotStarted"
    /\ op = "enter"
    /\ depth = 128
    /\ ucCriticalNesting = 255

----------------------------------------------------------------------------
(* The scheduler's hooks and the tick interrupt *)

Count(seq, x) == Cardinality({i \in DOMAIN seq : seq[i] = x})

\* A context switch: the running task's context is stored, the scheduler
\* selects task t (vTaskSwitchContext), and t's context is loaded.
SwitchContext(t) ==
    \E saved \in {IF running \in Tasks
                  THEN [ctx EXCEPT ![running] = LiveContext] ELSE ctx} :
        /\ ctx' = saved
        /\ pxCurrentTCB' = t
        /\ running' = t
        /\ LoadContext(saved[t])

vTaskSuspendAll == uxSchedulerSuspended' = Inc8(uxSchedulerSuspended)

\* xTaskResumeAll: a tick that was held back while suspended is served by a
\* yield once the count is back at zero.
xTaskResumeAll ==
    /\ uxSchedulerSuspended' = Dec8(uxSchedulerSuspended)
    /\ IF Dec8(uxSchedulerSuspended) = 0 /\ xYieldPending /\ phase = "Running"
       THEN /\ \E t \in Tasks : SwitchContext(t)
            /\ xYieldPending' = FALSE
            /\ log' = log \o << "xTaskResumeAll", "vTaskSwitchContext" >>
       ELSE /\ UNCHANGED << ctx, pxCurrentTCB, running, critVars, xYieldPending >>
            /\ log' = Append(log, "xTaskResumeAll")

\* The periodic tick interrupt: it selects the next task unless the scheduler
\* is suspended, and then only notes that a switch is due.  A context switch
\* that has begun completes before the next interrupt is served.
Tick ==
    /\ phase = "Running"
    /\ tickArmed
    /\ bGIE
    /\ pc[1] # "vPortYield"
    /\ pc # Idle => Count(log, "tick") < MaxTicks
    /\ IF uxSchedulerSuspended = 0
       THEN /\ \E t \in Tasks : SwitchContext(t)
            /\ log' = IF pc = Idle THEN log
                      ELSE log \o << "tick", "vTaskSwitchContext" >>
            /\ UNCHANGED xYieldPending
       ELSE /\ xYieldPending' = TRUE
            /\ log' = IF pc = Idle THEN log ELSE Append(log, "tick")
            /\ UNCHANGED << ctx, pxCurrentTCB, running, critVars >>
    /\ op' = "tick"
    /\ UNCHANGED << tier, scratch, loopVars, ret, calcVars, stackVars, cpuVars,
                    phase, pc, tickArmed, tickSetups,
                    caller, uxSchedulerSuspended, heap, usWantedSize, pvReturn,
                    pv, mallocRet >>

----------------------------------------------------------------------------
(* The allocator behind the gate: malloc and free of the toolchain *)

RECURSIVE UnitsHeld(_, _)
UnitsHeld(h, n) == IF n = 0 THEN 0 ELSE h[n] + UnitsHeld(h, n - 1)

UnitsNeeded(size) == IF size = 0 THEN 1 ELSE size

FreeHandles(h) == {x \in Handles : h[x] = 0}

\* What malloc(size) may return: a block when one fits, NULL when none does;
\* for a size of zero either.
MallocResults(h, size) ==
    (IF UnitsNeeded(size) <= HeapUnits - UnitsHeld(h, HeapUnits)
     THEN {CHOOSE x \in FreeHandles(h) : \A y \in FreeHandles(h) : x <= y}
     ELSE {NULL})
    \cup (IF size = 0 THEN {NULL} ELSE {})

LiveHandles(h) == {x \in Handles : h[x] > 0}

----------------------------------------------------------------------------
(* pvPortMalloc *)

\* The allocator called before the scheduler is suspended.
MallocSteps_MallocFirst ==
    << "malloc", "vTaskSuspendAll", "xTaskResumeAll", "return" >>

\* The body of pvPortMalloc, statement by statement.
MallocSteps == << "vTaskSuspendAll", "malloc", "xTaskResumeAll", "return" >>

AtMalloc(i) ==
    /\ pc = << "pvPortMalloc", i >>
    /\ i \in DOMAIN MallocSteps
    /\ running = caller

pvPortMalloc_Call ==
    /\ pc = Idle
    /\ phase # "Halted"
    /\ \E size \in 0 .. MaxSize : usWantedSize' = size
    /\ caller' = running
    /\ pc' = << "pvPortMalloc", 1 >>
    /\ log' = << >>
    /\ op' = "pvPortMalloc_Call"
    /\ UNCHANGED << tier, scratch, loopVars, ret, calcVars, stackVars, cpuVars, critVars,
                    phase, tickArmed, tickSetups, pxCurrentTCB, running, ctx,
                    uxSchedulerSuspended, xYieldPending, heap, pvReturn, pv,
                    mallocRet >>

pvPortMalloc_Suspend ==
    /\ \E i \in DOMAIN MallocSteps :
          /\ AtMalloc(i)
          /\ MallocSteps[i] = "vTaskSuspendAll"
          /\ pc' = << "pvPortMalloc", i + 1 >>
    /\ vTaskSuspendAll
    /\ log' = Append(log, "vTaskSuspendAll")
    /\ op' = "vTaskSuspendAll"
    /\ UNCHANGED << tier, scratch, loopVars, ret, calcVars, stackVars, cpuVars, critVars,
                    phase, tickArmed, tickSetups, pxCurrentTCB, running, ctx,
                    caller, xYieldPending, heap, usWantedSize, pvReturn, pv,
                    mallocRet >>

pvPortMalloc_Malloc ==
    /\ \E i \in DOMAIN MallocSteps :
          /\ AtMalloc(i)
          /\ MallocSteps[i] = "malloc"
          /\ pc' = << "pvPortMalloc", i + 1 >>
    /\ \E r \in MallocResults(heap, usWantedSize) :
          /\ pvReturn' = r
          /\ mallocRet' = r
          /\ heap' = IF r = NULL THEN heap
                     ELSE [heap EXCEPT ![r] = UnitsNeeded(usWantedSize)]
    /\ log' = Append(log, "malloc")
    /\ op' = "malloc"
    /\ UNCHANGED << tier, scratch, loopVars, ret, calcVars, stackVars, cpuVars, critVars,
                    phase, tickArmed, tickSetups, pxCurrentTCB, running, ctx,
                    caller, uxSchedulerSuspended, xYieldPending, usWantedSize, pv >>

\* A failed allocation leaves without resuming the scheduler.
pvPortMalloc_Resume_SkipOnNull ==
    /\ \E i \in DOMAIN MallocSteps :
          /\ AtMalloc(i)
          /\ MallocSteps[i] = "xTaskResumeAll"
          /\ pc' = << "pvPortMalloc", i + 1 >>
    /\ IF pvReturn = NULL
       THEN UNCHANGED << ctx, pxCurrentTCB, running, critVars, xYieldPending,
                         uxSchedulerSuspended, log >>
       ELSE xTaskResumeAll
    /\ op' = "xTaskResumeAll"
    /\ UNCHANGED << tier, scratch, loopVars, ret, calcVars, stackVars, cpuVars,
                    phase, tickArmed, tickSetups,
                    caller, heap, usWantedSize, pvReturn, pv, mallocRet >>

pvPortMalloc_Resume ==
    /\ \E i \in DOMAIN MallocSteps :
          /\ AtMalloc(i)
          /\ MallocSteps[i] = "xTaskResumeAll"
          /\ pc' = << "pvPortMalloc", i + 1 >>
    /\ xTaskResumeAll
    /\ op' = "xTaskResumeAll"
    /\ UNCHANGED << tier, scratch, loopVars, ret, calcVars, stackVars, cpuVars,
                    phase, tickArmed, tickSetups,
                    caller, heap, usWantedSize, pvReturn, pv, mallocRet >>

pvPortMalloc_Return ==
    /\ \E i \in DOMAIN MallocSteps :
          /\ AtMalloc(i)
          /\ MallocSteps[i] = "return"
    /\ ret' = pvReturn
    /\ pc' = Idle
    /\ op' = "pvPortMalloc_Return"
    /\ UNCHANGED << tier, scratch, loopVars, calcVars, stackVars, cpuVars, critVars,
                    phase, tickArmed, tickSetups, pxCurrentTCB, running, ctx, log,
                    allocVars >>

----------------------------------------------------------------------------
(* vPortFree *)

\* The test of the handle left out.
FreeGuard_Always(p) == TRUE

\* if( pv )
FreeGuard(p) == p # NULL

\* The function left before the scheduler is resumed.
FreeSteps_ReturnBeforeResume ==
    << "vTaskSuspendAll", "free", "return", "xTaskResumeAll" >>

\* The statements inside the if, and the return.
FreeSteps == << "vTaskSuspendAll", "free", "xTaskResumeAll", "return" >>

AtFree(i) ==
    /\ pc = << "vPortFree", i >>
    /\ i \in DOMAIN FreeSteps
    /\ running = caller

\* The call and the test of the handle; a null handle returns at once.
vPortFree_Call ==
    /\ pc = Idle
    /\ phase # "Halted"
    /\ \E p \in {NULL} \cup LiveHandles(heap) :
          /\ pv' = p
          /\ pc' = IF FreeGuard(p) THEN << "vPortFree", 1 >> ELSE Idle
          /\ op' = IF FreeGuard(p) THEN "vPortFree_Call" ELSE "vPortFree_Return"
    /\ caller' = running
    /\ log' = << >>
    /\ UNCHANGED << tier, scratch, loopVars, ret, calcVars, stackVars, cpuVars, critVars,
                    phase, tickArmed, tickSetups, pxCurrentTCB, running, ctx,
                    uxSchedulerSuspended, xYieldPending, heap, usWantedSize,
                    pvReturn, mallocRet >>

vPortFree_Suspend ==
    /\ \E i \in DOMAIN FreeSteps :
          /\ AtFree(i)
          /\ FreeSteps[i] = "vTaskSuspendAll"
          /\ pc' = << "vPortFree", i + 1 >>
    /\ vTaskSuspendAll
    /\ log' = Append(log, "vTaskSuspendAll")
    /\ op' = "vTaskSuspendAll"
    /\ UNCHANGED << tier, scratch, loopVars, ret, calcVars, stackVars, cpuVars, critVars,
                    phase, tickArmed, tickSetups, pxCurrentTCB, running, ctx,
                    caller, xYieldPending, heap, usWantedSize, pvReturn, pv,
                    mallocRet >>

vPortFree_Free ==
    /\ \E i \in DOMAIN FreeSteps :
          /\ AtFree(i)
          /\ FreeSteps[i] = "free"
          /\ pc' = << "vPortFree", i + 1 >>
    /\ heap' = IF pv \in Handles THEN [heap EXCEPT ![pv] = 0] ELSE heap
    /\ log' = Append(log, "free")
    /\ op' = "free"
    /\ UNCHANGED << tier, scratch, loopVars, ret, calcVars, stackVars, cpuVars, critVars,
                    phase, tickArmed, tickSetups, pxCurrentTCB, running, ctx,
                    caller, uxSchedulerSuspended, xYieldPending, usWantedSize,
                    pvReturn, pv, mallocRet >>

vPortFree_Resume ==
    /\ \E i \in DOMAIN FreeSteps :
          /\ AtFree(i)
          /\ FreeSteps[i] = "xTaskResumeAll"
          /\ pc' = << "vPortFree", i + 1 >>
    /\ xTaskResumeAll
    /\ op' = "xTaskResumeAll"
    /\ UNCHANGED << tier, scratch, loopVars, ret, calcVars, stackVars, cpuVars,
                    phase, tickArmed, tickSetups,
                    caller, heap, usWantedSize, pvReturn, pv, mallocRet >>

vPortFree_Return ==
    /\ \E i \in DOMAIN FreeSteps :
          /\ AtFree(i)
          /\ FreeSteps[i] = "return"
    /\ pc' = Idle
    /\ op' = "vPortFree_Return"
    /\ UNCHANGED << tier, scratch, loopVars, ret, calcVars, stackVars, cpuVars, critVars,
                    phase, tickArmed, tickSetups, pxCurrentTCB, running, ctx, log,
                    allocVars >>

InitAlloc ==
    /\ ConfigInit
    /\ scratch = 0
    /\ CalcInit
    /\ NoStack
    /\ CpuInit
    /\ CritInit
    /\ SchedInit
    /\ AllocInit

NextAlloc ==
    \/ vTaskStartScheduler
    \/ xPortStartScheduler_SetupTick
    \/ xPortStartScheduler_Restore
    \/ Tick
    \/ pvPortMalloc_Call
    \/ pvPortMalloc_Suspend
    \/ pvPortMalloc_Malloc
    \/ pvPortMalloc_Resume
    \/ pvPortMalloc_Return
    \/ vPortFree_Call
    \/ vPortFree_Suspend
    \/ vPortFree_Free
    \/ vPortFree_Resume
    \/ vPortFree_Return

SpecAlloc == InitAlloc /\ [][NextAlloc]_vars

InMalloc == pc[1] = "pvPortMalloc" \/ op = "pvPortMalloc_Return"

\* Entry i of the log lies after a vTaskSuspendAll that no xTaskResumeAll
\* has matched yet.
InWindow(l, i) ==
    \E j \in 1 .. i - 1 :
        /\ l[j] = "vTaskSuspendAll"
        /\ \A k \in j + 1 .. i - 1 : l[k] # "xTaskResumeAll"

\* C6: whatever ticks fire during a pvPortMalloc call, vTaskSwitchContext is
\* never invoked between the call's vTaskSuspendAll and its xTaskResumeAll,
\* and malloc is called only between the two.
C6_AllocatorAtomicity ==
    InMalloc =>
        \A i \in DOMAIN log :
            /\ log[i] = "vTaskSwitchContext" => ~ InWindow(log, i)
            /\ log[i] = "malloc" => InWindow(log, i)

\* A tick fired while the allocation held the scheduler suspended; the switch
\* it asked for was made once the scheduler was resumed.
C6_Witness ==
    /\ op = "pvPortMalloc_Return"
    /\ log = << "vTaskSuspendAll", "tick", "malloc", "xTaskResumeAll",
                "vTaskSwitchContext" >>

NullFreeCalled ==
    /\ pc = Idle
    /\ op' \in {"vPortFree_Call", "vPortFree_Return"}
    /\ pv' = NULL

\* C7: vPortFree with a null handle calls neither free nor vTaskSuspendAll
\* nor xTaskResumeAll, changes no state and returns.
C7_NullFreeNoOp ==
    /\ [](pc[1] = "vPortFree" => pv # NULL)
    /\ [][NullFreeCalled =>
            /\ pc' = Idle
            /\ op' = "vPortFree_Return"
            /\ log' = << >>
            /\ UNCHANGED << heap, uxSchedulerSuspended, xYieldPending, critVars,
                            ctx, pxCurrentTCB, running, phase, tickArmed,
                            tickSetups, ret, mallocRet, pvReturn >>]_vars

\* A null handle was freed while a block was allocated and the scheduler ran.
C7_Witness ==
    /\ op = "vPortFree_Return"
    /\ pv = NULL
    /\ log = << >>
    /\ phase = "Running"
    /\ LiveHandles(heap) # {}

\* C8: pvPortMalloc returns what malloc returned, null included, having
\* called malloc once and xTaskResumeAll once, with the scheduler no longer
\* suspended.
C8_MallocResultVerbatim ==
    op = "pvPortMalloc_Return" =>
        /\ ret = mallocRet
        /\ Count(log, "malloc") = 1
        /\ Count(log, "vTaskSuspendAll") = 1
        /\ Count(log, "xTaskResumeAll") = 1
        /\ uxSchedulerSuspended = 0

\* An allocation failed on an exhausted heap.
C8_Witness ==
    /\ op = "pvPortMalloc_Return"
    /\ usWantedSize > 0
    /\ ret = NULL
    /\ uxSchedulerSuspended = 0

----------------------------------------------------------------------------
(* vPortYield *)

\* The context switch written with the restore ahead of the selection.
YieldSteps_RestoreBeforeSwitch ==
    << "portSAVE_CONTEXT", "portRESTORE_CONTEXT", "vTaskSwitchContext" >>

\* The body of vPortYield, statement by statement.
YieldSteps == << "portSAVE_CONTEXT", "vTaskSwitchContext", "portRESTORE_CONTEXT" >>

AtYield(i) == pc = << "vPortYield", i >> /\ i \in DOMAIN YieldSteps

\* A task yields.
vPortYield_Call ==
    /\ pc = Idle
    /\ phase = "Running"
    /\ caller' = running
    /\ pc' = << "vPortYield", 1 >>
    /\ log' = << >>
    /\ op' = "vPortYield_Call"
    /\ UNCHANGED << tier, scratch, loopVars, ret, calcVars, stackVars, cpuVars, critVars,
                    phase, tickArmed, tickSetups, pxCurrentTCB, running, ctx,
                    uxSchedulerSuspended, xYieldPending, heap, usWantedSize,
                    pvReturn, pv, mallocRet >>

\* portSAVE_CONTEXT stores the live context in the current task.
vPortYield_Save ==
    /\ \E i \in DOMAIN YieldSteps :
          /\ AtYield(i)
          /\ YieldSteps[i] = "portSAVE_CONTEXT"
          /\ pc' = << "vPortYield", i + 1 >>
    /\ ctx' = [ctx EXCEPT ![pxCurrentTCB] = LiveContext]
    /\ log' = Append(log, "portSAVE_CONTEXT")
    /\ op' = "vPortYield_Save"
    /\ UNCHANGED << tier, scratch, loopVars, allocVars, ret, calcVars, stackVars, cpuVars,
                    critVars, phase, tickArmed, tickSetups, pxCurrentTCB, running >>

\* vTaskSwitchContext selects the task to run next, unless the scheduler is
\* suspended.
vPortYield_Switch ==
    /\ \E i \in DOMAIN YieldSteps :
          /\ AtYield(i)
          /\ YieldSteps[i] = "vTaskSwitchContext"
          /\ pc' = << "vPortYield", i + 1 >>
    /\ IF uxSchedulerSuspended = 0
       THEN (\E t \in Tasks : pxCurrentTCB' = t) /\ UNCHANGED xYieldPending
       ELSE xYieldPending' = TRUE /\ UNCHANGED pxCurrentTCB
    /\ log' = Append(log, "vTaskSwitchContext")
    /\ op' = "vPortYield_Switch"
    /\ UNCHANGED << tier, scratch, loopVars, ret, calcVars, stackVars, cpuVars, critVars,
                    phase, tickArmed, tickSetups, running, ctx,
                    caller, uxSchedulerSuspended, heap, usWantedSize, pvReturn,
                    pv, mallocRet >>

\* Control passes to the restored task: nothing after the restore is run.
vPortYield_Restore ==
    /\ \E i \in DOMAIN YieldSteps :
          /\ AtYield(i)
          /\ YieldSteps[i] = "portRESTORE_CONTEXT"
    /\ LoadContext(ctx[pxCurrentTCB])
    /\ running' = pxCurrentTCB
    /\ pc' = Idle
    /\ log' = Append(log, "portRESTORE_CONTEXT")
    /\ op' = "vPortYield_Restore"
    /\ UNCHANGED << tier, scratch, loopVars, allocVars, ret, calcVars, stackVars, cpuVars,
                    phase, tickArmed, tickSetups, pxCurrentTCB, ctx >>

\* The running code enters a critical section, a few levels deep at most.
TaskEnterCritical == depth < MaxYieldNesting /\ portENTER_CRITICAL

InitSched ==
    /\ ConfigInit
    /\ scratch = 0
    /\ CalcInit
    /\ NoStack
    /\ CpuInit
    /\ CritInit
    /\ SchedInit
    /\ AllocInit

NextSched ==
    \/ vTaskStartScheduler
    \/ xPortStartScheduler_SetupTick
    \/ xPortStartScheduler_Restore
    \/ vPortYield_Call
    \/ vPortYield_Save
    \/ vPortYield_Switch
    \/ vPortYield_Restore
    \/ TaskEnterCritical
    \/ portEXIT_CRITICAL
    \/ Tick

SpecSched == InitSched /\ [][NextSched]_vars

\* C9: every vPortYield runs three steps in this order and no others: the save
\* of the calling task's context (its nesting counter included) in that task,
\* one call of vTaskSwitchContext, then the restore of the context of the task
\* that is current after the hook ran; nothing is restored before the save.
C9_YieldSaveSwitchRestore ==
    /\ op = "vPortYield_Save" =>
          /\ log = << "portSAVE_CONTEXT" >>
          /\ pxCurrentTCB = caller
          /\ running = caller
          /\ ctx[caller] = LiveContext
    /\ op = "vPortYield_Switch" =>
          /\ log = << "portSAVE_CONTEXT", "vTaskSwitchContext" >>
          /\ running = caller
    /\ op = "vPortYield_Restore" =>
          /\ log = << "portSAVE_CONTEXT", "vTaskSwitchContext",
                      "portRESTORE_CONTEXT" >>
          /\ running = pxCurrentTCB
          /\ LiveContext = ctx[pxCurrentTCB]
          /\ pc = Idle

\* A task inside a critical section yields to the other task, which is not.
C9_Witness ==
    /\ op = "vPortYield_Restore"
    /\ running # caller
    /\ ctx[caller].nesting = 1
    /\ ucCriticalNesting = 0
    /\ bGIE

\* A yield that resumes the task that called it.
C9_WitnessSameTask ==
    /\ op = "vPortYield_Restore"
    /\ running = caller
    /\ ucCriticalNesting = 2

----------------------------------------------------------------------------
(* The whole life of the port: bootstrap, yields, ticks and the allocator gate *)

InitPort == InitSched

NextPort ==
    \/ NextAlloc
    \/ vPortYield_Call
    \/ vPortYield_Save
    \/ vPortYield_Switch
    \/ vPortYield_Restore

SpecPort == InitPort /\ [][NextPort]_vars

ArmsTick == tickArmed' # tickArmed \/ tickSetups' # tickSetups

RestoresContext ==
    \/ running' # running
    \/ pc # Idle /\ pc' = Idle /\ op' \in {"startRestore", "vPortYield_Restore"}

----------------------------------------------------------------------------
(* The end of xPortStartScheduler and vPortEndScheduler *)

pdTRUE == 1

\* The fault the last statement of xPortStartScheduler is written for: control
\* comes back to the statement after the restore of the first task.  It can
\* happen while the function has not returned.
xPortStartScheduler_ControlReturns ==
    /\ pc = Idle
    /\ phase = "Running"
    /\ ret # pdTRUE
    /\ \E i \in DOMAIN StartSteps :
          /\ StartSteps[i] = "portRESTORE_CONTEXT"
          /\ pc' = << "xPortStartScheduler", i + 1 >>
    /\ op' = "controlReturns"
    /\ UNCHANGED << tier, scratch, loopVars, allocVars, ret, calcVars, stackVars, cpuVars,
                    critVars, phase, tickArmed, tickSetups, pxCurrentTCB,
                    running, ctx, log >>

\* return pdTRUE: the caller gets a value and the system runs on.
xPortStartScheduler_Return ==
    /\ \E i \in DOMAIN StartSteps :
          /\ AtStart(i)
          /\ StartSteps[i] = "return"
    /\ ret' = pdTRUE
    /\ pc' = Idle
    /\ log' = Append(log, "return")
    /\ op' = "startReturn"
    /\ UNCHANGED << tier, scratch, loopVars, allocVars, calcVars, stackVars, cpuVars,
                    critVars, phase, tickArmed, tickSetups, pxCurrentTCB,
                    running, ctx >>

\* A termination request that does nothing and returns to its caller.
vPortEndScheduler_Return ==
    /\ pc = Idle
    /\ phase # "Halted"
    /\ log' = << >>
    /\ op' = "vPortEndScheduler"
    /\ UNCHANGED << tier, scratch, loopVars, allocVars, ret, calcVars, stackVars, cpuVars,
                    critVars, phase, pc, tickArmed, tickSetups, pxCurrentTCB,
                    running, ctx >>

\* vPortEndScheduler: the reset instruction and nothing else.
vPortEndScheduler ==
    /\ pc = Idle
    /\ phase # "Halted"
    /\ phase' = "Halted"
    /\ log' = << "reset" >>
    /\ op' = "vPortEndScheduler"
    /\ UNCHANGED << tier, scratch, loopVars, allocVars, ret, calcVars, stackVars, cpuVars,
                    critVars, pc, tickArmed, tickSetups, pxCurrentTCB,
                    running, ctx >>

InitLife == InitSched

NextLife ==
    \/ vTaskStartScheduler
    \/ xPortStartScheduler_SetupTick
    \/ xPortStartScheduler_Restore
    \/ xPortStartScheduler_ControlReturns
    \/ xPortStartScheduler_Return
    \/ vPortYield_Call
    \/ vPortYield_Save
    \/ vPortYield_Switch
    \/ vPortYield_Restore
    \/ TaskEnterCritical
    \/ portEXIT_CRITICAL
    \/ vPortEndScheduler

SpecLife == InitLife /\ [][NextLife]_vars

\* C11: when control comes back into xPortStartScheduler after the restore of
\* the first task, the function resets the hardware; it never hands a value
\* back to its caller with the system still running.
C11_ReturnIsReset ==
    op = "startReturn" => phase = "Halted" /\ "reset" \in {log[i] : i \in DOMAIN log}

C11_ControlCameBack ==
    /\ op = "startReturn"
    /\ ret = pdTRUE
    /\ phase = "Running"

\* C12: vPortEndScheduler resets the hardware and does not unwind: every call
\* ends in Halted with a reset and nothing else done, Halted is entered only by
\* that reset and never left, the scheduler goes NotStarted, Running, Halted
\* and never back, and the call saves, selects and restores no task context.
C12_EndSchedulerResets ==
    /\ [](op = "vPortEndScheduler" => phase = "Halted" /\ log = << "reset" >>)
    /\ [](phase = "Halted" => op = "vPortEndScheduler")
    /\ [][/\ phase' # phase =>
               \/ phase = "NotStarted" /\ phase' \in {"Running", "Halted"}
               \/ phase = "Running" /\ phase' = "Halted"
          /\ phase' = "Halted" /\ phase # "Halted" =>
               /\ op' = "vPortEndScheduler"
               /\ ctx' = ctx
               /\ pxCurrentTCB' = pxCurrentTCB
               /\ running' = running
               /\ ucCriticalNesting' = ucCriticalNesting
               /\ pc' = pc]_vars

\* A running task inside a critical section asks for termination.
C12_Witness ==
    /\ op = "vPortEndScheduler"
    /\ phase = "Halted"
    /\ running \in Tasks
    /\ ucCriticalNesting = 1

----------------------------------------------------------------------------
(* usPortCALCULATE_MINIMAL_STACK_SIZE called again *)

\* C13: for a fixed scratch size, successive calls of
\* usPortCALCULATE_MINIMAL_STACK_SIZE all return the same value: a call leaves
\* nothing behind that changes the result of the next.
C13_SuccessiveCallsAgree ==
    [][(op = "calc" /\ op' = "calc") => ret' = ret]_vars

\* Two calls have been made and the global holds more than one byte.
C13_SecondCallWithHighByte ==
    /\ op = "calc"
    /\ calcCalls = 2
    /\ usCalcMinStackSize > 255

----------------------------------------------------------------------------
(* The frame of pxPortInitialiseStack, byte by byte *)

\* The frame as it lies in memory, read from the caller's top of stack down to
\* the last byte written.
FrameRead == [k \in 1 .. topIn - ret |-> stack[topIn - (k - 1)]]

Zeros(n) == [i \in 1 .. n |-> 0]

\* The groups as the claim lists them: the two extra zero bytes of the large
\* tier together, after the register block and before the scratch.
StatedGroups(t, s) ==
    << 2, portSTACK_FSR_BYTES(t), IF t = "large" THEN 2 ELSE 0, s, 2, 1, 1 >>

RECURSIVE SumTo(_, _)
SumTo(seq, n) == IF n = 0 THEN 0 ELSE seq[n] + SumTo(seq, n - 1)

\* C14 as stated: parameter high, low; one byte per register slot; large tier
\* only: two zero bytes; S zero bytes; entry high, low; the count; the nesting
\* value -- in this order from the highest address down, and nothing else.
C14_FrameGroupsAsStated ==
    op = "build" =>
        \E g \in {StatedGroups(tier, scratch)} :
            /\ topIn - ret = SumTo(g, 7)
            /\ stack[topIn] = Hi8(pvParameters)
            /\ stack[topIn - 1] = Lo8(pvParameters)
            /\ \A k \in SumTo(g, 2) + 1 .. SumTo(g, 4) : stack[topIn - (k - 1)] = 0
            /\ stack[topIn - SumTo(g, 4)] = Hi8(pxCode)
            /\ stack[topIn - SumTo(g, 4) - 1] = Lo8(pxCode)
            /\ stack[topIn - SumTo(g, 5)] = 1
            /\ stack[topIn - SumTo(g, 6)] = portNO_CRITICAL_SECTION_NESTING

\* C14 amended: parameter high, low; the register placeholders, which in the
\* large tier include the table pointer's upper byte (zero) after TABLAT and
\* the program-counter latch's upper byte (0xEE) before PCLATH; S zero bytes;
\* large tier only: the record's upper byte (zero); entry high, low; the count
\* 1; the nesting value 0.
C14_FrameLayout ==
    op = "build" =>
        FrameRead =
            << Hi8(pvParameters), Lo8(pvParameters) >>
            \o << 17, 34, 51, 68, 85, 102, 119, 136, 153, 170 >>
            \o (IF tier = "large" THEN << 0 >> ELSE << >>)
            \o << 204, 221 >>
            \o (IF tier = "large" THEN << 238 >> ELSE << >>)
            \o << 255 >>
            \o Zeros(scratch)
            \o (IF tier = "large" THEN << 0 >> ELSE << >>)
            \o << Hi8(pxCode), Lo8(pxCode) >>
            \o << 1 >>
            \o << 0 >>

\* A large-tier frame with scratch bytes, distinct address and parameter bytes,
\* built over a non-zero region.
C14_Witness ==
    /\ op = "build"
    /\ tier = "large"
    /\ scratch = 7
    /\ pxCode = 4660
    /\ pvParameters = 43981
    /\ stack[0] = 165
    /\ stack[topIn - 12] = 0
    /\ stack[topIn - 15] = 238

----------------------------------------------------------------------------
(* The register block across the tiers *)

\* The register block of the built frame, first slot stored first.
BlockRead == [k \in 1 .. portSTACK_FSR_BYTES(tier) |-> FrameRead[2 + k]]

\* The placeholders of the large tier's 15 slots, in the order stored.
LargeSlots == << 17, 34, 51, 68, 85, 102, 119, 136, 153, 170, 0, 204, 221, 238, 255 >>

\* Slot 11 is the table pointer's upper byte, slot 14 the latch's.
UpperSlots == {11, 14}

RECURSIVE WithoutSlots(_, _, _)
WithoutSlots(seq, drop, k) ==
    IF k > Len(seq) THEN << >>
    ELSE (IF k \in drop THEN << >> ELSE << seq[k] >>) \o WithoutSlots(seq, drop, k + 1)

\* C15: the small tier's 13 register slots are the large tier's 15 with only
\* the two upper-byte slots removed, in the same order, whatever the entry
\* address, the parameter and the scratch size.
C15_RegisterOrderAcrossTiers ==
    op = "build" =>
        BlockRead = IF tier = "large" THEN LargeSlots
                    ELSE WithoutSlots(LargeSlots, UpperSlots, 1)

C15_Witness ==
    /\ op = "build"
    /\ tier = "small"
    /\ scratch = 255
    /\ pxCode = 65535
    /\ pvParameters = 65280
    /\ BlockRead[11] = 204
    /\ BlockRead[13] = 255

----------------------------------------------------------------------------
(* The record count and the nesting seed of a new frame *)

\* C16: every built frame holds a record count of 1 and a nesting value of 0,
\* which is not the startup sentinel 0x7F; building the frame leaves the live
\* counter at the sentinel, and the task restored from a frame built before
\* the scheduler starts runs with nesting 0 and one call/return record.
C16_CountAndNestingSeed ==
    /\ [](op = "build" =>
            /\ stack[ret + 2] = 1
            /\ stack[ret + 1] = 0
            /\ stack[ret + 1] # 127
            /\ ucCriticalNesting = 127)
    /\ [](op = "restore" => ucCriticalNesting = 0 /\ Len(hwStack) = 1)
    /\ [][op' = "build" => ucCriticalNesting' = ucCriticalNesting /\ bGIE' = bGIE]_vars

C16_Witness ==
    /\ op = "restore"
    /\ phase = "NotStarted"
    /\ base = 127
    /\ ucCriticalNesting = 0
    /\ tier = "large"
    /\ scratch = 100

----------------------------------------------------------------------------
(* The frame against the calculated minimal stack size *)

\* Bytes pxPortInitialiseStack takes from the stack for scratch size s.
FrameSize(t, s) == Len(FrameBytes(0, 0, t, s))

\* C17: for the same scratch size and tier, the frame takes strictly fewer
\* bytes than usPortCALCULATE_MINIMAL_STACK_SIZE returns, so a region of the
\* returned size holds the whole frame.
C17_FrameFitsMinimalSize ==
    op = "calc" => FrameSize(tier, scratch) < ret

\* The call after the high byte of the global has run through all its values.
C17_HighByteWrapped ==
    /\ op = "calc"
    /\ calcCalls = 256
    /\ ret = 0
    /\ FrameSize(tier, scratch) = 222

----------------------------------------------------------------------------
(* What pxPortInitialiseStack touches *)

\* C18: building a frame has no effect but on the stack: every address above
\* the returned pointer up to the input pointer is written, by as many stores
\* as there are addresses, no address outside that range changes, and the live
\* nesting counter, usCalcMinStackSize, and the scheduler and heap state stay
\* as they were.
C18_OnlyTheFrameIsWritten ==
    [][op' = "build" =>
          /\ 0 <= ret' /\ ret' < topIn'
          /\ topIn' - ret' = Len(FrameBytes(pxCode', pvParameters', tier, scratch))
          /\ \A a \in StackAddrs :
                (a <= ret' \/ a > topIn') => stack'[a] = stack[a]
          /\ stack[0] = 165 =>
                \A a \in StackAddrs :
                    (ret' < a /\ a <= topIn') => stack'[a] # stack[a]
          /\ UNCHANGED << ucCriticalNesting, bGIE, calcVars, cpuVars,
                          schedVars, allocVars >>]_vars

\* The longest frame, built one address below the top of a non-zero region.
C18_Witness ==
    /\ op = "build"
    /\ tier = "large"
    /\ scratch = 255
    /\ topIn = StackSize - 2
    /\ ret = topIn - 277
    /\ stack[StackSize - 1] = 165
    /\ stack[ret] = 165
    /\ stack[ret + 1] = 0

----------------------------------------------------------------------------
(* Suspend and resume in balance over allocations and frees *)

\* The calls the port function made, without the ticks that fired meanwhile
\* and the switches the scheduler made.
OwnCalls(l) == SelectSeq(l, LAMBDA e : e \notin {"tick", "vTaskSwitchContext"})

CallCompleted == op \in {"pvPortMalloc_Return", "vPortFree_Return"}

\* C19: vPortFree of a non-null handle does suspend, free of that handle,
\* resume, in this order and nothing else; every completed pvPortMalloc and
\* vPortFree has made as many vTaskSuspendAll as xTaskResumeAll calls; the
\* suspend depth is never above 1 and is 0 between calls.
C19_SuspendResumeBalanced ==
    /\ (op = "vPortFree_Return" /\ pv # NULL) =>
          /\ OwnCalls(log) = << "vTaskSuspendAll", "free", "xTaskResumeAll" >>
          /\ heap[pv] = 0
    /\ CallCompleted =>
          Count(log, "vTaskSuspendAll") = Count(log, "xTaskResumeAll")
    /\ uxSchedulerSuspended <= 1
    /\ pc = Idle => uxSchedulerSuspended = 0

\* A block is freed after an allocation has failed, with a tick held back
\* during the free.
C19_Witness ==
    /\ op = "vPortFree_Return"
    /\ pv # NULL
    /\ mallocRet = NULL
    /\ log = << "vTaskSuspendAll", "tick", "free", "xTaskResumeAll",
                "vTaskSwitchContext" >>

----------------------------------------------------------------------------
(* The scratch loop of pxPortInitialiseStack, one test at a time *)

\* The test made on a signed byte.
ScratchLoopTest_Signed(u) == (IF u >= 128 THEN u - 256 ELSE u) > 0

\* ucScratch-- > 0: the value tested is the one held before the decrement.
ScratchLoopTest(u) == u > 0

AtScratchLoop == pc = << "pxPortInitialiseStack", 1 >>

\* ucScratch = PRODL: the scratch size the toolchain reports, in one byte.
ScratchLoop_Fetch ==
    /\ pc = Idle
    /\ op = "none"
    /\ ucScratch' = Lo8(scratch)
    /\ zeroBytes' = 0
    /\ pc' = << "pxPortInitialiseStack", 1 >>
    /\ op' = "fetch"
    /\ UNCHANGED << tier, scratch, ret, calcVars, stackVars, cpuVars, critVars,
                    phase, tickArmed, tickSetups, pxCurrentTCB, running, ctx,
                    log, allocVars >>

\* The test holds: the variable is decremented and the body stores a zero.
ScratchLoop_Iterate ==
    /\ AtScratchLoop
    /\ ScratchLoopTest(ucScratch)
    /\ ucScratch' = Dec8(ucScratch)
    /\ zeroBytes' = zeroBytes + 1
    /\ op' = "zero"
    /\ UNCHANGED << tier, scratch, ret, calcVars, stackVars, cpuVars, critVars,
                    schedVars, allocVars >>

\* The test fails: the variable is decremented all the same and the loop ends.
ScratchLoop_Exit ==
    /\ AtScratchLoop
    /\ ~ ScratchLoopTest(ucScratch)
    /\ ucScratch' = Dec8(ucScratch)
    /\ pc' = Idle
    /\ op' = "loopDone"
    /\ UNCHANGED << tier, scratch, zeroBytes, ret, calcVars, stackVars, cpuVars,
                    critVars, phase, tickArmed, tickSetups, pxCurrentTCB,
                    running, ctx, log, allocVars >>

InitLoop ==
    /\ ConfigInit
    /\ scratch \in Bytes
    /\ CalcInit
    /\ NoStack
    /\ CpuInit
    /\ CritInit
    /\ SchedInit
    /\ AllocInit

NextLoop ==
    \/ ScratchLoop_Fetch
    \/ ScratchLoop_Iterate
    \/ ScratchLoop_Exit

\* The function runs on a single thread of control that does not stop.
SpecLoop == InitLoop /\ [][NextLoop]_vars /\ WF_vars(NextLoop)

\* C20: for every scratch size S in 0..255 the loop ends, after exactly S
\* iterations and S zero bytes stored (none for S = 0); that is also the
\* number of scratch bytes in the frame the builder writes.
C20_ScratchLoopTerminates ==
    /\ [](AtScratchLoop => zeroBytes + ucScratch = scratch)
    /\ [](op = "loopDone" =>
            /\ zeroBytes = scratch
            /\ zeroBytes = ScratchIterations(scratch)
            /\ Len(ScratchBytes(scratch)) = scratch)
    /\ <>(op = "loopDone")

C20_Witness ==
    /\ op = "loopDone"
    /\ scratch = 255
    /\ zeroBytes = 255
    /\ ucScratch = 255

\* The loop with nothing to store.
C20_WitnessEmpty ==
    /\ op = "loopDone"
    /\ scratch = 0
    /\ zeroBytes = 0

====
